---- MODULE Spec2Model ----
(***************************************************************************)
(* Model of the pool-occupancy data pipeline: the incremental merge        *)
(* (src/transform.py), the dataset validator, alias resolution and the     *)
(* capacity parser of the raw-scrape auditor (src/checks).                 *)
(***************************************************************************)
EXTENDS Integers, Sequences, FiniteSets, TLC

(***************************************************************************)
(* Values.  Python None / JSON null / pandas NaN is the empty tuple, a     *)
(* present value v is <<v>>.  Comparisons with a missing value are False,  *)
(* as pandas evaluates them.                                               *)
(***************************************************************************)
None == <<>>

Some(v) == <<v>>

Lt(v, n) == v # None /\ v[1] < n

Gt(v, n) == v # None /\ v[1] > n

Ge(v, n) == v # None /\ v[1] >= n

Le(v, n) == v # None /\ v[1] <= n

(***************************************************************************)
(* Bounds of the model.                                                    *)
(***************************************************************************)
\* number of raw snapshot files that may appear in the input directory
NumFiles == 7

(***************************************************************************)
(* Generic sequence helpers.                                               *)
(***************************************************************************)
RECURSIVE Flatten(_)
Flatten(ss) ==
  IF ss = <<>> THEN <<>> ELSE Head(ss) \o Flatten(Tail(ss))

\* the elements of a finite set of integers in ascending order (sorted(glob))
RECURSIVE Sorted(_)
Sorted(S) ==
  IF S = {} THEN <<>>
  ELSE LET m == CHOOSE x \in S : \A y \in S : x <= y
       IN <<m>> \o Sorted(S \ {m})

Range(s) == {s[i] : i \in DOMAIN s}

(***************************************************************************)
(* AliasResolver.  Keys are the strings "{type}:{name}".                   *)
(***************************************************************************)
AliasKey(facility_type, facility_name) == facility_type \o ":" \o facility_name

\* the alias configuration loaded by load_facility_aliases
Aliases == [k \in {"sauna:Nordbad Sauna"} |-> "Nordbad"]

\* variant: the lookup ignores the facility type
resolve_any_type(facility_name, facility_type, map) ==
  LET keys == {k \in DOMAIN map :
                 \E t \in {"pool", "sauna"} : k = AliasKey(t, facility_name)}
  IN IF keys # {} THEN map[CHOOSE k \in keys : TRUE] ELSE facility_name

resolve_facility_alias(facility_name, facility_type, aliases) ==
  LET key == AliasKey(facility_type, facility_name)
  IN IF key \in DOMAIN aliases THEN aliases[key] ELSE facility_name

(***************************************************************************)
(* Raw snapshot files.  A file is malformed JSON, or a document with an    *)
(* optional scrape_timestamp and top-level lists of facility objects.      *)
(***************************************************************************)
Fac(name, type, ts, occ) ==
  [pool_name |-> name, facility_type |-> type, timestamp |-> ts,
   occupancy_percent |-> occ]

Doc(scrape_ts, lists) ==
  [malformed |-> FALSE, scrape_timestamp |-> scrape_ts, lists |-> lists]

Malformed == [malformed |-> TRUE, scrape_timestamp |-> None, lists |-> <<>>]

\* the raw files that can be dropped into the input directory; the index is
\* the position of the file name in sorted order
RawFile(i) ==
  CASE i = 1 -> Doc(Some(1), << <<Fac("Nordbad", "pool", 2, Some(40))>>,
                               <<Fac("Nordbad Sauna", "sauna", 2, Some(0))>> >>)
    [] i = 2 -> Doc(Some(2), << <<Fac("Nordbad", "pool", 2, Some(50)),
                                 Fac("Nordbad", "pool", 2, Some(60))>> >>)
    [] i = 3 -> Doc(Some(3), << <<Fac("Nordbad", "pool", 2, Some(70)),
                                 Fac("Nordbad", "pool", 3, Some(100))>>,
                               <<>> >>)
    [] i = 4 -> Malformed
    [] i = 5 -> Doc(None, << <<Fac("Westbad", "pool", 1, Some(30))>> >>)
    [] i = 6 -> Doc(Some(3), << <<Fac("Nordbad Sauna", "sauna", 3, None),
                                 Fac("Nordbad Sauna", "sauna", 3, Some(20))>> >>)
    [] i = 7 -> Doc(Some(3), << <<Fac("Westbad", "pool", 3, Some(101)),
                                 Fac("Nordbad", "pool", 2, Some(-1))>>,
                               <<Fac("Nordbad Sauna", "sauna", 2, None)>> >>)
    [] OTHER -> Doc(Some(1), << <<Fac("Westbad", "pool", 1, Some(55)),
                                 Fac("Nordbad", "pool", 1, Some(45))>> >>)

(***************************************************************************)
(* SnapshotIngester: load_pool_data.                                       *)
(***************************************************************************)
Record(facility, aliases) ==
  [timestamp |-> facility.timestamp,
   facility_name |-> resolve_facility_alias(facility.pool_name,
                                            facility.facility_type, aliases),
   facility_type |-> facility.facility_type,
   occupancy_percent |-> facility.occupancy_percent]

\* variant: a file at the cutoff is skipped too
SkippedAtOrBefore(data, since) ==
  /\ since # None
  /\ data.scrape_timestamp # None
  /\ data.scrape_timestamp[1] <= since[1]

\* a file is skipped when it is strictly before the cutoff
Skipped(data, since) ==
  /\ since # None
  /\ data.scrape_timestamp # None
  /\ data.scrape_timestamp[1] < since[1]

\* the records one file contributes to the batch
FileRecords(data, since, aliases) ==
  IF data.malformed \/ Skipped(data, since) THEN <<>>
  ELSE LET facilities == Flatten(data.lists)
       IN [k \in 1..Len(facilities) |-> Record(facilities[k], aliases)]

\* the records appended for each file of the directory by the loop
LoadedPerFile(input_dir, since, aliases) ==
  [i \in input_dir |-> FileRecords(RawFile(i), since, aliases)]

load_pool_data(input_dir, since, aliases) ==
  LET json_files == Sorted(input_dir)
      loaded == LoadedPerFile(input_dir, since, aliases)
  IN Flatten([k \in 1..Len(json_files) |-> loaded[json_files[k]]])

(***************************************************************************)
(* DatasetValidator and the pandas operations it and the merge use.        *)
(***************************************************************************)
Key(r) == <<r.timestamp, r.facility_name, r.facility_type>>

OutOfRange(r) == Lt(r.occupancy_percent, 0) \/ Gt(r.occupancy_percent, 100)

\* variant: the upper bound is not checked
AtLeastZero(r) == Ge(r.occupancy_percent, 0)

InRange(r) == Ge(r.occupancy_percent, 0) /\ Le(r.occupancy_percent, 100)

\* df.duplicated(keep="first") removed: a row stays iff no earlier row has its key
DropDuplicatesFirst(df) ==
  LET keep == {i \in 1..Len(df) : \A j \in 1..(i - 1) : Key(df[j]) # Key(df[i])}
      idx == Sorted(keep)
  IN [k \in 1..Len(idx) |-> df[idx[k]]]

\* df.drop_duplicates(keep="last"): a row stays iff no later row has its key
DropDuplicatesLast(df) ==
  LET keep == {i \in 1..Len(df) : \A j \in (i + 1)..Len(df) : Key(df[j]) # Key(df[i])}
      idx == Sorted(keep)
  IN [k \in 1..Len(idx) |-> df[idx[k]]]

\* variant: the range is not checked, only duplicates are dropped
validate_no_range(df) == DropDuplicatesFirst(df)

validate_data(df) ==
  IF df = <<>> THEN df
  ELSE LET invalid_occupancy == SelectSeq(df, OutOfRange)
           ranged == IF invalid_occupancy # <<>> THEN SelectSeq(df, InRange) ELSE df
       IN DropDuplicatesFirst(ranged)

(***************************************************************************)
(* Persistence: the CSV holds offset-qualified timestamps, the in-memory   *)
(* frames hold naive local times.                                          *)
(***************************************************************************)
\* tz_localize(TIMEZONE) + strftime + the colon inserted in the offset
FormatTimestamp(t) == <<t, "+01:00">>

\* read_csv(parse_dates) + tz_localize(None)
ParseTimestamp(s) == s[1]

to_csv(df) ==
  [k \in 1..Len(df) |-> [df[k] EXCEPT !.timestamp = FormatTimestamp(@)]]

NoFile == [exists |-> FALSE, rows |-> <<>>]

load_existing_data(output) ==
  IF output.exists
  THEN [k \in 1..Len(output.rows) |->
          [output.rows[k] EXCEPT !.timestamp = ParseTimestamp(@)]]
  ELSE <<>>

MaxTimestamp(df) ==
  CHOOSE t \in {df[k].timestamp : k \in DOMAIN df} :
    \A k \in DOMAIN df : df[k].timestamp <= t

\* lexicographic order of the facility names
NameRank(name) ==
  CASE name = "Nordbad" -> 1
    [] name = "Nordbad Sauna" -> 2
    [] OTHER -> 3

SortLe(a, b) ==
  \/ a.timestamp < b.timestamp
  \/ /\ a.timestamp = b.timestamp
     /\ NameRank(a.facility_name) <= NameRank(b.facility_name)

\* stable insertion: r goes after every row that is not greater than it
RECURSIVE InsertSorted(_, _)
InsertSorted(r, s) ==
  IF s = <<>> THEN <<r>>
  ELSE IF SortLe(Head(s), r) THEN <<Head(s)>> \o InsertSorted(r, Tail(s))
       ELSE <<r>> \o s

\* df.sort_values(["timestamp", "facility_name"]), a stable sort
RECURSIVE SortValues(_)
SortValues(df) ==
  IF df = <<>> THEN <<>>
  ELSE InsertSorted(df[Len(df)], SortValues(SubSeq(df, 1, Len(df) - 1)))

\* variant: the lookup is keyed by the facility name alone
RECURSIVE FacilityTypesByName(_)
FacilityTypesByName(df) ==
  IF df = <<>> THEN <<>>
  ELSE LET r == df[Len(df)]
           rest == FacilityTypesByName(SubSeq(df, 1, Len(df) - 1))
           key == r.facility_name
       IN [k \in DOMAIN rest \cup {key} |->
             IF k = key THEN r.facility_type ELSE rest[k]]

\* the dict comprehension over the distinct (name, type) pairs: later pairs
\* overwrite earlier ones with the same key
RECURSIVE FacilityTypes(_)
FacilityTypes(df) ==
  IF df = <<>> THEN <<>>
  ELSE LET r == df[Len(df)]
           rest == FacilityTypes(SubSeq(df, 1, Len(df) - 1))
           key == AliasKey(r.facility_type, r.facility_name)
       IN [k \in DOMAIN rest \cup {key} |->
             IF k = key THEN r.facility_type ELSE rest[k]]

(***************************************************************************)
(* State.                                                                  *)
(***************************************************************************)
VARIABLES
  raw_files,       \* the input directory: the indices of the raw files present
  dataset,         \* the persisted dataset (CSV): [exists, rows]
  facility_types,  \* the persisted facility-type lookup (JSON): [exists, map]
  last,            \* what the most recent merge run did
  aliases,         \* the alias configuration (facility_aliases.json), a dict
  call             \* the latest call of a pure function and what it returned

vars == <<raw_files, dataset, facility_types, last, aliases, call>>

NoCall == [op |-> "none"]

NoRun ==
  [outcome |-> "none", input_dir |-> {}, before |-> NoFile, since |-> None,
   loaded |-> <<>>, pool_df |-> <<>>, validated_df |-> <<>>]

Init ==
  /\ raw_files = {}
  /\ dataset = NoFile
  /\ facility_types = [exists |-> FALSE, map |-> <<>>]
  /\ last = NoRun
  /\ aliases = Aliases
  /\ call = NoCall

\* a scrape drops one more raw file into the input directory
AddRawFile(i) ==
  /\ i \notin raw_files
  /\ raw_files' = raw_files \cup {i}
  /\ UNCHANGED <<dataset, facility_types, last, aliases, call>>

\* the cutoff of a run
Since(existing_df) ==
  IF existing_df # <<>> THEN Some(MaxTimestamp(existing_df)) ELSE None

\* variant: the concat is persisted without the dedup
CombineNoDedup(existing_df, validated_df) == existing_df \o validated_df

\* variant: the new batch overwrites the dataset
CombineNewOnly(existing_df, validated_df) == validated_df

\* variant: the merge dedup keeps the first occurrence (old wins)
CombineKeepFirst(existing_df, validated_df) ==
  IF existing_df # <<>>
  THEN DropDuplicatesFirst(existing_df \o validated_df)
  ELSE validated_df

\* variant: the new batch is dropped when a dataset exists
CombineExistingOnly(existing_df, validated_df) ==
  IF existing_df # <<>> THEN existing_df ELSE validated_df

\* concat with the existing dataset and dedup, new rows last
Combine(existing_df, validated_df) ==
  IF existing_df # <<>>
  THEN DropDuplicatesLast(existing_df \o validated_df)
  ELSE validated_df

\* one run of transform(): returns early when no record was loaded
TransformEarly ==
  LET existing_df == load_existing_data(dataset)
      since == Since(existing_df)
      pool_df == load_pool_data(raw_files, since, aliases)
  IN /\ pool_df = <<>>
     /\ last' = [outcome |-> "early", input_dir |-> raw_files, before |-> dataset,
                 since |-> since,
                 loaded |-> LoadedPerFile(raw_files, since, aliases),
                 pool_df |-> pool_df, validated_df |-> <<>>]
     /\ UNCHANGED <<raw_files, dataset, facility_types, aliases, call>>

\* one run of transform() that validates, merges and persists
TransformSave ==
  LET existing_df == load_existing_data(dataset)
      since == Since(existing_df)
      pool_df == load_pool_data(raw_files, since, aliases)
      validated_df == validate_data(pool_df)
      combined_df == SortValues(Combine(existing_df, validated_df))
  IN /\ pool_df # <<>>
     /\ dataset' = [exists |-> TRUE, rows |-> to_csv(combined_df)]
     /\ facility_types' = [exists |-> TRUE, map |-> FacilityTypes(combined_df)]
     /\ last' = [outcome |-> "saved", input_dir |-> raw_files, before |-> dataset,
                 since |-> since,
                 loaded |-> LoadedPerFile(raw_files, since, aliases),
                 pool_df |-> pool_df, validated_df |-> validated_df]
     /\ UNCHANGED <<raw_files, aliases, call>>

Next ==
  \/ \E i \in 1..NumFiles : AddRawFile(i)
  \/ TransformEarly
  \/ TransformSave

Spec == Init /\ [][Next]_vars

(***************************************************************************)
(* Properties of the merge pipeline (specification Spec).                  *)
(***************************************************************************)
\* a row of an in-memory frame as it is persisted
Persisted(r) == [r EXCEPT !.timestamp = FormatTimestamp(@)]

KeysOf(rows) == {Key(rows[k]) : k \in DOMAIN rows}

HasDuplicateKeys(rows) ==
  \E i, j \in DOMAIN rows : i < j /\ Key(rows[i]) = Key(rows[j])

\* the new batch of the last run collides with a row of the dataset it found
LastRunCollides ==
  \E k \in DOMAIN last.validated_df :
    Key(Persisted(last.validated_df[k])) \in KeysOf(last.before.rows)

\* C1: the persisted dataset never holds two rows with the same
\* (timestamp, facility_name, facility_type), whatever runs came before
\* (first run, later runs, runs that exit early).
C1_DatasetUnique == ~HasDuplicateKeys(dataset.rows)

\* C1 witness: a later run saved a batch that had duplicate keys in itself and
\* collided with the existing dataset.
C1_Witness ==
  /\ last.outcome = "saved"
  /\ last.before.rows # <<>>
  /\ HasDuplicateKeys(last.pool_df)
  /\ LastRunCollides

\* C2 (as claimed): a run that follows a run over the same input directory,
\* with no raw file added in between, leaves the persisted dataset as it was.
C2_Idempotent ==
  [][(last.outcome # "none" /\ last.input_dir = raw_files /\ raw_files' = raw_files)
       => dataset' = dataset]_vars

\* C3: a run never removes a key from the persisted dataset: the keys
\* persisted after any step include the keys persisted before it.
C3_KeysGrow == [][KeysOf(dataset.rows) \subseteq KeysOf(dataset'.rows)]_vars

\* C3 witness: a run merged new keys into a non-empty dataset.
C3_Witness ==
  /\ last.outcome = "saved"
  /\ last.before.rows # <<>>
  /\ KeysOf(last.before.rows) # KeysOf(dataset.rows)

\* C4: on a key collision between an existing row and a validated new row the
\* persisted row is the new one and the existing one is gone; existing rows
\* whose key is not in the validated batch are persisted unchanged.
C4_NewWinsOnCollision ==
  last.outcome = "saved" =>
    /\ \A k \in DOMAIN last.validated_df :
         LET v == Persisted(last.validated_df[k])
         IN Key(v) \in KeysOf(last.before.rows) =>
              /\ v \in Range(dataset.rows)
              /\ \A e \in Range(last.before.rows) :
                   (Key(e) = Key(v) /\ e # v) => e \notin Range(dataset.rows)
    /\ \A e \in Range(last.before.rows) :
         Key(e) \notin KeysOf(to_csv(last.validated_df)) => e \in Range(dataset.rows)

\* C4 witness: a new row replaced an existing row with the same key and another
\* occupancy, while another existing row was not in the batch.
C4_Witness ==
  /\ last.outcome = "saved"
  /\ \E e \in Range(last.before.rows) :
       \E k \in DOMAIN last.validated_df :
         /\ Key(Persisted(last.validated_df[k])) = Key(e)
         /\ Persisted(last.validated_df[k]) # e
  /\ \E e \in Range(last.before.rows) :
       Key(e) \notin KeysOf(to_csv(last.validated_df))

\* every observation of a raw file, as canonical records, in file order
AllObservations(i) ==
  LET facilities == Flatten(RawFile(i).lists)
  IN [k \in 1..Len(facilities) |-> Record(facilities[k], aliases)]

WellFormed(i) == ~RawFile(i).malformed /\ RawFile(i).scrape_timestamp # None

\* the latest timestamp of the dataset a run found
Cutoff(rows) ==
  CHOOSE t \in {ParseTimestamp(rows[k].timestamp) : k \in DOMAIN rows} :
    \A k \in DOMAIN rows : ParseTimestamp(rows[k].timestamp) <= t

C6_ExactlyInRange ==
  last.outcome = "saved" =>
    last.validated_df = DropDuplicatesFirst(SelectSeq(last.pool_df, InRange))

\* the first row of the batch that has the key and an occupancy in [0, 100]
FirstInRange(df, key) ==
  df[CHOOSE i \in DOMAIN df :
       /\ Key(df[i]) = key /\ InRange(df[i])
       /\ \A j \in 1..(i - 1) : ~(Key(df[j]) = key /\ InRange(df[j]))]

\* C7 (as claimed): of the in-range rows of a batch that share a key, the
\* first one in ingestion order survives validation and is the row persisted.
C7_FirstInRangeSurvives ==
  last.outcome = "saved" =>
    \A k \in DOMAIN last.pool_df :
      InRange(last.pool_df[k]) =>
        LET first == FirstInRange(last.pool_df, Key(last.pool_df[k]))
        IN /\ first \in Range(last.validated_df)
           /\ Persisted(first) \in Range(dataset.rows)

\* the mapping "type:name" -> type of the distinct pairs of a dataset
DerivedTypes(rows) ==
  [k \in {AliasKey(rows[i].facility_type, rows[i].facility_name) : i \in DOMAIN rows}
     |-> CHOOSE t \in {rows[i].facility_type : i \in DOMAIN rows} :
           \E i \in DOMAIN rows :
             /\ rows[i].facility_type = t
             /\ AliasKey(t, rows[i].facility_name) = k]

\* C8 (as claimed): every run, also one that finds no new raw data, writes
\* the lookup, which then is the mapping derived from the persisted dataset.
C8_LookupRegenerated ==
  last.outcome # "none" =>
    /\ facility_types.exists
    /\ facility_types.map = DerivedTypes(dataset.rows)

\* C8 (amended): a run that persists the dataset writes the lookup as the
\* mapping derived from the persisted dataset, one entry per distinct
\* (name, type) pair; a run that returns early for lack of new raw data writes
\* neither file, so the lookup exists exactly when the dataset does.
C8_LookupMatchesDataset ==
  /\ facility_types.exists = dataset.exists
  /\ facility_types.exists =>
       /\ facility_types.map = DerivedTypes(dataset.rows)
       /\ Cardinality(DOMAIN facility_types.map) =
            Cardinality({<<dataset.rows[i].facility_name, dataset.rows[i].facility_type>> :
                           i \in DOMAIN dataset.rows})
  /\ last.outcome = "saved" => facility_types.exists
  /\ last.outcome = "early" => dataset = last.before

\* C8 witness: an early run over an existing dataset left a lookup that holds
\* a pool and a sauna of the same name.
C8_Witness ==
  /\ last.outcome = "early"
  /\ last.before.exists
  /\ Cardinality(DOMAIN facility_types.map) >= 2
  /\ \E i, j \in DOMAIN dataset.rows :
       /\ dataset.rows[i].facility_name = dataset.rows[j].facility_name
       /\ dataset.rows[i].facility_type # dataset.rows[j].facility_type

(***************************************************************************)
(* AliasResolver on its own (specification SpecAlias): every call of       *)
(* resolve_facility_alias over a small universe of names, types and maps.  *)
(***************************************************************************)
AliasTypes == {"pool", "sauna"}

\* raw names, one of them holding a colon
AliasNames == {"Nordbad", "Nordbad Sauna", "sauna:Nordbad"}

AliasCanonical == {"Nordbad", "Dantebad"}

\* the keys an alias file may hold
AliasKeyUniverse ==
  {"pool:Nordbad", "sauna:Nordbad", "pool:Nordbad Sauna", "sauna:Nordbad Sauna",
   "pool:sauna:Nordbad"}

AliasMaps == UNION {[D -> AliasCanonical] : D \in SUBSET AliasKeyUniverse}

\* the dict after aliases.get(key, facility_name): get does not write
AliasesAfterResolve(facility_name, facility_type, map) == map

InitAlias ==
  /\ raw_files = {}
  /\ dataset = NoFile
  /\ facility_types = [exists |-> FALSE, map |-> <<>>]
  /\ last = NoRun
  /\ aliases \in AliasMaps
  /\ call = NoCall

\* one call, and a second one with the same arguments on the dict it left
ResolveCall(facility_name, facility_type) ==
  LET result == resolve_facility_alias(facility_name, facility_type, aliases)
      after == AliasesAfterResolve(facility_name, facility_type, aliases)
  IN /\ call' = [op |-> "resolve", facility_name |-> facility_name,
                 facility_type |-> facility_type, aliases |-> aliases,
                 result |-> result,
                 again |-> resolve_facility_alias(facility_name, facility_type, after)]
     /\ aliases' = after
     /\ UNCHANGED <<raw_files, dataset, facility_types, last>>

NextAlias == \E n \in AliasNames, t \in AliasTypes : ResolveCall(n, t)

SpecAlias == InitAlias /\ [][NextAlias]_vars

\* the key "type:raw_name" written out for each pair of the universe
ExpectedKey(facility_type, facility_name) ==
  CASE facility_type = "pool" /\ facility_name = "Nordbad" -> "pool:Nordbad"
    [] facility_type = "sauna" /\ facility_name = "Nordbad" -> "sauna:Nordbad"
    [] facility_type = "pool" /\ facility_name = "Nordbad Sauna" -> "pool:Nordbad Sauna"
    [] facility_type = "sauna" /\ facility_name = "Nordbad Sauna" -> "sauna:Nordbad Sauna"
    [] facility_type = "pool" /\ facility_name = "sauna:Nordbad" -> "pool:sauna:Nordbad"
    [] OTHER -> "sauna:sauna:Nordbad"

\* C9: resolve returns alias_map["type:raw_name"] when that key is present and
\* raw_name otherwise (an alias under another type never applies); a second
\* call with the same arguments returns the same, and the map is not modified.
C9_AliasResolution ==
  call.op = "resolve" =>
    LET key == ExpectedKey(call.facility_type, call.facility_name)
    IN /\ key \in DOMAIN call.aliases => call.result = call.aliases[key]
       /\ key \notin DOMAIN call.aliases => call.result = call.facility_name
       /\ call.again = call.result
       /\ aliases = call.aliases

\* C9 witness: the name has an alias under the other type only, and the call
\* returned the raw name.
C9_Witness ==
  /\ call.op = "resolve"
  /\ ExpectedKey(call.facility_type, call.facility_name) \notin DOMAIN call.aliases
  /\ \E t \in AliasTypes :
       /\ t # call.facility_type
       /\ ExpectedKey(t, call.facility_name) \in DOMAIN call.aliases
       /\ call.aliases[ExpectedKey(t, call.facility_name)] # call.facility_name
  /\ call.result = call.facility_name

(***************************************************************************)
(* Capacity parser of the raw-scrape auditor (specification SpecCapacity). *)
(* A string is a sequence of characters; raw_occupancy is None or a string.*)
(***************************************************************************)
\* number of fragments an input string is put together from
MaxFragments == 5

IsDigit(c) == c \in {"0", "1", "2", "3", "4", "5", "6", "7", "8", "9"}

\* \s
IsSpace(c) == c \in {" ", "\t", "\n", "\r"}

DigitValue(c) ==
  CASE c = "0" -> 0 [] c = "1" -> 1 [] c = "2" -> 2 [] c = "3" -> 3
    [] c = "4" -> 4 [] c = "5" -> 5 [] c = "6" -> 6 [] c = "7" -> 7
    [] c = "8" -> 8 [] OTHER -> 9

\* int() of a string of digits
RECURSIVE ToInt(_)
ToInt(digits) ==
  IF digits = <<>> THEN 0
  ELSE 10 * ToInt(SubSeq(digits, 1, Len(digits) - 1)) + DigitValue(digits[Len(digits)])

Person == <<"p", "e", "r", "s", "o", "n">>

\* the literal "person" starts at position k (the optional "s" after it never
\* decides a match)
PersonAt(s, k) == k + Len(Person) - 1 <= Len(s) /\ SubSeq(s, k, k + Len(Person) - 1) = Person

\* the ends j of the group (\d+) for which /(\d+)\s*persons? matches with the
\* slash at i
GroupEnds(s, i) ==
  {j \in (i + 1)..Len(s) :
     /\ \A d \in (i + 1)..j : IsDigit(s[d])
     /\ \E k \in j..Len(s) :
          /\ \A w \in (j + 1)..k : IsSpace(s[w])
          /\ PersonAt(s, k + 1)}

\* variant: the pattern also asks for digits before the slash
MatchStartsAfterDigits(s) ==
  {i \in 2..Len(s) : s[i] = "/" /\ IsDigit(s[i - 1]) /\ GroupEnds(s, i) # {}}

\* the positions at which the pattern matches
MatchStarts(s) == {i \in 1..Len(s) : s[i] = "/" /\ GroupEnds(s, i) # {}}

\* re.search: the leftmost match, its group taken greedily
parse_capacity(raw_occupancy) ==
  IF raw_occupancy = None \/ raw_occupancy[1] = <<>> THEN None
  ELSE LET s == raw_occupancy[1]
           starts == MatchStarts(s)
       IN IF starts # {}
          THEN LET i == CHOOSE x \in starts : \A y \in starts : x <= y
                   j == CHOOSE x \in GroupEnds(s, i) : \A y \in GroupEnds(s, i) : y <= x
               IN Some(ToInt(SubSeq(s, i + 1, j)))
          ELSE None

\* the pieces the input strings are put together from
Fragments ==
  {<<"5", "7">>, <<"3">>, <<"/">>, <<" ">>, Person, <<"s">>, <<"x">>}

CapacityInputs ==
  {None} \cup
  {Some(Flatten(fs)) : fs \in UNION {[1..n -> Fragments] : n \in 0..MaxFragments}}

InitCapacity ==
  /\ raw_files = {}
  /\ dataset = NoFile
  /\ facility_types = [exists |-> FALSE, map |-> <<>>]
  /\ last = NoRun
  /\ aliases = Aliases
  /\ call \in {[op |-> "input", raw_occupancy |-> x] : x \in CapacityInputs}

ParseCapacityCall ==
  /\ call.op = "input"
  /\ call' = [op |-> "parse_capacity", raw_occupancy |-> call.raw_occupancy,
              result |-> parse_capacity(call.raw_occupancy)]
  /\ UNCHANGED <<raw_files, dataset, facility_types, last, aliases>>

NextCapacity == ParseCapacityCall

SpecCapacity == InitCapacity /\ [][NextCapacity]_vars

\* the end of the longest run of digits that starts after position i
DigitRunEnd(s, i) ==
  CHOOSE j \in i..Len(s) :
    /\ \A d \in (i + 1)..j : IsDigit(s[d])
    /\ j = Len(s) \/ ~IsDigit(s[j + 1])

\* the end of the longest run of whitespace that starts after position i
SpaceRunEnd(s, i) ==
  CHOOSE j \in i..Len(s) :
    /\ \A d \in (i + 1)..j : IsSpace(s[d])
    /\ j = Len(s) \/ ~IsSpace(s[j + 1])

\* "/<digits><optional whitespace>person" with the slash at i
SlashPatternAt(s, i) ==
  /\ s[i] = "/"
  /\ DigitRunEnd(s, i) > i
  /\ PersonAt(s, SpaceRunEnd(s, DigitRunEnd(s, i)) + 1)

\* "<digits>/<digits><optional whitespace>person" with the slash at i
FullPatternAt(s, i) == SlashPatternAt(s, i) /\ i > 1 /\ IsDigit(s[i - 1])

\* the number between the slash at i and "person"
CapacityAt(s, i) == ToInt(SubSeq(s, i + 1, DigitRunEnd(s, i)))

Parsed == call.op = "parse_capacity"

\* C10 (as claimed): the second integer is returned when the string holds
\* "<digits>/<digits> person(s)", and None for None, "" and every string that
\* does not hold that full pattern, such as one with no digit before the slash.
C10_FullPatternOnly ==
  Parsed =>
    IF call.raw_occupancy = None THEN call.result = None
    ELSE LET s == call.raw_occupancy[1]
             full == {i \in 1..Len(s) : FullPatternAt(s, i)}
         IN IF full = {} THEN call.result = None
            ELSE call.result = Some(CapacityAt(s, CHOOSE i \in full : \A y \in full : i <= y))

\* C10 (amended): parse_capacity returns the integer between the slash and
\* "person" of the leftmost "/<digits><optional whitespace>person(s)" in the
\* string, whatever stands before the slash, and None for None, "" and every
\* string without such a part.
C10_SlashPattern ==
  Parsed =>
    IF call.raw_occupancy = None THEN call.result = None
    ELSE LET s == call.raw_occupancy[1]
             hits == {i \in 1..Len(s) : SlashPatternAt(s, i)}
         IN IF hits = {} THEN call.result = None
            ELSE call.result = Some(CapacityAt(s, CHOOSE i \in hits : \A y \in hits : i <= y))

\* C10 witness: a capacity was parsed from a string whose slash has no digit
\* before it.
C10_Witness ==
  /\ Parsed
  /\ call.raw_occupancy # None
  /\ call.result # None
  /\ \A i \in 1..Len(call.raw_occupancy[1]) : ~FullPatternAt(call.raw_occupancy[1], i)

(***************************************************************************)
(* The raw-scrape auditor (check_raw_scrapes.py): facility presence.       *)
(* Time is counted in hours.  Specification SpecFacilities.                *)
(***************************************************************************)
\* a gap or an absence of this many hours is reported
GAP_THRESHOLD_HOURS == 2

\* the number of scrapes a day needs before missing facilities are reported
MinScrapes == 8

\* the most scrapes a day holds, and the latest hour of a scrape
MaxScrapes == 9

MaxHour == 2

\* how often the content of the scrapes changes during a day
MaxSwitches == 1

\* lexicographic order of the facility types
TypeRank(type) ==
  CASE type = "ice_rink" -> 1
    [] type = "pool" -> 2
    [] OTHER -> 3

\* the order of (type, name) tuples
TupleLess(a, b) ==
  \/ TypeRank(a[1]) < TypeRank(b[1])
  \/ /\ a[1] = b[1]
     /\ NameRank(a[2]) < NameRank(b[2])

\* sorted() of a set of (type, name) tuples
RECURSIVE SortedTuples(_)
SortedTuples(S) ==
  IF S = {} THEN <<>>
  ELSE LET m == CHOOSE x \in S : \A y \in S \ {x} : TupleLess(x, y)
       IN <<m>> \o SortedTuples(S \ {m})

\* a facility object of a scrape; a facility_type of None is an absent key
ScrapeFac(name, type, raw) ==
  [pool_name |-> name, facility_type |-> type, raw_occupancy |-> raw]

\* a loaded scrape: its parsed timestamp and its top-level lists
Scrape(ts, lists) == [_parsed_timestamp |-> ts, lists |-> lists]

\* the facilities of a scrape: every item of every non-empty list whose
\* first item carries a facility_type
extract_facilities_from_scrape(data) ==
  Flatten([k \in DOMAIN data.lists |->
    LET value == data.lists[k]
    IN IF value = <<>> THEN <<>>
       ELSE IF value[1].facility_type = None THEN <<>>
       ELSE [j \in DOMAIN value |->
               [name |-> value[j].pool_name,
                type |-> IF value[j].facility_type = None THEN None
                         ELSE value[j].facility_type[1],
                capacity |-> parse_capacity(value[j].raw_occupancy)]]])

\* the (type, name) tuples seen in the scrapes of today
TodayFacilities(today_scrapes) ==
  UNION {{<<f.type, f.name>> :
            f \in Range(extract_facilities_from_scrape(today_scrapes[k]))} :
         k \in DOMAIN today_scrapes}

ScrapeTimes(today_scrapes) ==
  {today_scrapes[k]._parsed_timestamp : k \in DOMAIN today_scrapes}

Min(S) == CHOOSE x \in S : \A y \in S : x <= y

Max(S) == CHOOSE x \in S : \A y \in S : y <= x

\* last_scrape - first_scrape
Duration(today_scrapes) ==
  Max(ScrapeTimes(today_scrapes)) - Min(ScrapeTimes(today_scrapes))

MissingIssue(f, today_scrapes) ==
  [issue |-> "Missing facility", facility |-> f,
   scrapes |-> Len(today_scrapes), duration |-> Duration(today_scrapes)]

\* variant: one of the two gates is enough
GatesEither(today_scrapes) ==
  \/ Len(today_scrapes) >= MinScrapes
  \/ Duration(today_scrapes) >= GAP_THRESHOLD_HOURS

\* the two gates of the missing-facility report
Gates(today_scrapes) ==
  /\ Len(today_scrapes) >= MinScrapes
  /\ Duration(today_scrapes) >= GAP_THRESHOLD_HOURS

check_missing_facilities(today_scrapes, historical_facilities) ==
  IF today_scrapes = <<>> THEN <<>>
  ELSE LET missing == historical_facilities \ TodayFacilities(today_scrapes)
           sorted == SortedTuples(missing)
       IN IF missing # {} /\ Gates(today_scrapes)
          THEN [k \in DOMAIN sorted |-> MissingIssue(sorted[k], today_scrapes)]
          ELSE <<>>

NewIssue(f) == [issue |-> "New facility", facility |-> f]

\* variant: new facilities are reported under the gates of the missing ones
NewFacilitiesGated(today_scrapes, historical_facilities) ==
  IF today_scrapes # <<>> /\ Gates(today_scrapes)
  THEN TodayFacilities(today_scrapes) \ historical_facilities
  ELSE {}

NewFacilities(today_scrapes, historical_facilities) ==
  TodayFacilities(today_scrapes) \ historical_facilities

check_new_facilities(today_scrapes, historical_facilities) ==
  LET sorted == SortedTuples(NewFacilities(today_scrapes, historical_facilities))
  IN [k \in DOMAIN sorted |-> NewIssue(sorted[k])]

\* the facilities of the scrapes
Nordbad == <<"pool", "Nordbad">>

Westbad == <<"pool", "Westbad">>

NordbadSauna == <<"sauna", "Nordbad Sauna">>

\* what a scrape of the day can hold: both pools and an empty list, or
\* Nordbad and a list that is ignored because its first item has no type
ScrapeLists ==
  { << <<ScrapeFac("Nordbad", Some("pool"), None),
         ScrapeFac("Westbad", Some("pool"), None)>>, <<>> >>,
    << <<ScrapeFac("Ostbad", None, None),
         ScrapeFac("Westbad", Some("pool"), None)>>,
       <<ScrapeFac("Nordbad", Some("pool"), None)>> >> }

HistoricalSets == { {}, {Nordbad}, {Nordbad, Westbad, NordbadSauna} }

\* the positions at which the content of the scrapes changes
Switches(today_scrapes) ==
  {k \in 2..Len(today_scrapes) : today_scrapes[k].lists # today_scrapes[k - 1].lists}

FacilityAudit(today_scrapes, historical_facilities) ==
  [op |-> "facility_checks", today_scrapes |-> today_scrapes,
   historical_facilities |-> historical_facilities,
   missing |-> check_missing_facilities(today_scrapes, historical_facilities),
   new |-> check_new_facilities(today_scrapes, historical_facilities)]

PipelineIdle ==
  /\ raw_files = {}
  /\ dataset = NoFile
  /\ facility_types = [exists |-> FALSE, map |-> <<>>]
  /\ last = NoRun
  /\ aliases = Aliases

\* the audit of a day without scrapes
InitFacilities ==
  /\ PipelineIdle
  /\ call \in {FacilityAudit(<<>>, h) : h \in HistoricalSets}

\* one more scrape of the day is loaded and the two facility checks run
AuditFacilities(ts, lists) ==
  LET today_scrapes == Append(call.today_scrapes, Scrape(ts, lists))
  IN /\ Len(call.today_scrapes) < MaxScrapes
     /\ call.today_scrapes # <<>> =>
          call.today_scrapes[Len(call.today_scrapes)]._parsed_timestamp <= ts
     /\ Cardinality(Switches(today_scrapes)) <= MaxSwitches
     /\ call' = FacilityAudit(today_scrapes, call.historical_facilities)
     /\ UNCHANGED <<raw_files, dataset, facility_types, last, aliases>>

NextFacilities ==
  \E ts \in 0..MaxHour, lists \in ScrapeLists : AuditFacilities(ts, lists)

SpecFacilities == InitFacilities /\ [][NextFacilities]_vars

\* the facilities an issue list reports, in order
Reported(issues) == [k \in DOMAIN issues |-> issues[k].facility]

\* a facility is listed in one of the scrapes under a typed list
SeenToday(f) ==
  \E k \in DOMAIN call.today_scrapes :
    \E l \in DOMAIN call.today_scrapes[k].lists :
      LET value == call.today_scrapes[k].lists[l]
      IN /\ value # <<>>
         /\ value[1].facility_type # None
         /\ \E j \in DOMAIN value :
              /\ value[j].facility_type = Some(f[1])
              /\ value[j].pool_name = f[2]

\* a sequence lists every element of S exactly once
ListsOnce(seq, S) ==
  /\ Range(seq) = S
  /\ Len(seq) = Cardinality(S)

\* C11: the missing-facility check reports exactly one issue for each
\* historical (type, name) seen in none of today's scrapes when the day has
\* at least 8 scrapes and they span at least 2 hours, and nothing otherwise
\* (in particular nothing for a day without scrapes, and never a facility
\* that was seen).
C11_MissingFacilities ==
  call.op = "facility_checks" =>
    LET n == Len(call.today_scrapes)
        gated == /\ n >= 8
                 /\ \E i, j \in DOMAIN call.today_scrapes :
                      call.today_scrapes[j]._parsed_timestamp
                        - call.today_scrapes[i]._parsed_timestamp >= 2
    IN /\ gated => ListsOnce(Reported(call.missing),
                     {f \in call.historical_facilities : ~SeenToday(f)})
       /\ ~gated => call.missing = <<>>
       /\ \A k \in DOMAIN call.missing : ~SeenToday(call.missing[k].facility)

\* C11 witness: both gates are open, one historical facility is reported and
\* another one, seen in some scrapes only, is not.
C11_Witness ==
  /\ call.op = "facility_checks"
  /\ Len(call.today_scrapes) = MinScrapes
  /\ Reported(call.missing) = <<NordbadSauna>>
  /\ Westbad \in call.historical_facilities
  /\ Switches(call.today_scrapes) # {}

\* C17: the new-facility check reports exactly one issue for each (type,
\* name) seen in at least one of today's scrapes and absent from the
\* historical set, whatever the number of scrapes and their span.
C17_NewFacilities ==
  call.op = "facility_checks" =>
    ListsOnce(Reported(call.new),
      {f \in {Nordbad, Westbad, NordbadSauna, <<"pool", "Ostbad">>} :
         SeenToday(f) /\ f \notin call.historical_facilities})

\* C17 witness: a new facility is reported from a single scrape.
C17_Witness ==
  /\ call.op = "facility_checks"
  /\ Len(call.today_scrapes) = 1
  /\ Reported(call.new) = <<Nordbad, Westbad>>

(***************************************************************************)
(* The raw-scrape auditor: capacity changes.  Specification                *)
(* SpecCapacityChange.                                                     *)
(***************************************************************************)
\* the most scrapes of a day in this specification
MaxCapacityScrapes == 2

\* today_capacities as the (key, capacity) pairs in insertion order: the
\* first truthy capacity of each key
RECURSIVE TodayCapacities(_)
TodayCapacities(facs) ==
  IF facs = <<>> THEN <<>>
  ELSE LET rest == TodayCapacities(SubSeq(facs, 1, Len(facs) - 1))
           fac == facs[Len(facs)]
           key == <<fac.type, fac.name>>
       IN IF /\ fac.capacity # None
             /\ fac.capacity[1] # 0
             /\ \A k \in DOMAIN rest : rest[k][1] # key
          THEN Append(rest, <<key, fac.capacity[1]>>)
          ELSE rest

CapacityIssue(key, hist_cap, today_cap) ==
  [issue |-> "Capacity change", facility |-> key,
   hist_cap |-> hist_cap, today_cap |-> today_cap]

check_capacity_changes(today_scrapes, historical_capacities) ==
  LET today_capacities ==
        TodayCapacities(Flatten([k \in DOMAIN today_scrapes |->
          extract_facilities_from_scrape(today_scrapes[k])]))
  IN Flatten([k \in DOMAIN today_capacities |->
       LET key == today_capacities[k][1]
           today_cap == today_capacities[k][2]
       IN IF key \in DOMAIN historical_capacities
             /\ today_cap # historical_capacities[key]
          THEN <<CapacityIssue(key, historical_capacities[key], today_cap)>>
          ELSE <<>>])

\* the raw_occupancy strings of the scrapes: absent, "12/3person",
\* "/7 persons" and "0/0persons"
RawOccupancies ==
  {None,
   Some(<<"1", "2", "/", "3">> \o Person),
   Some(<<"/", "7", " ">> \o Person \o <<"s">>),
   Some(<<"0", "/", "0">> \o Person \o <<"s">>)}

\* the single list of a scrape: Nordbad and the sauna, each listed or not
CapacityLists ==
  {<<n \o s>> :
     n \in {<<>>} \cup {<<ScrapeFac("Nordbad", Some("pool"), raw)>> : raw \in RawOccupancies},
     s \in {<<>>} \cup {<<ScrapeFac("Nordbad Sauna", Some("sauna"), raw)>> : raw \in RawOccupancies}}

\* the historical capacities: any of 3 and 7 for the pool, 7 for the sauna
HistoricalCapacities ==
  UNION {[S -> {3, 7}] : S \in SUBSET {Nordbad, NordbadSauna}}

CapacityAudit(today_scrapes, historical_capacities) ==
  [op |-> "check_capacity_changes", today_scrapes |-> today_scrapes,
   historical_capacities |-> historical_capacities,
   issues |-> check_capacity_changes(today_scrapes, historical_capacities)]

InitCapacityChange ==
  /\ PipelineIdle
  /\ call \in {CapacityAudit(<<>>, h) : h \in HistoricalCapacities}

\* one more scrape of the day is loaded and the capacity check runs
AuditCapacities(lists) ==
  /\ Len(call.today_scrapes) < MaxCapacityScrapes
  /\ call' = CapacityAudit(Append(call.today_scrapes, Scrape(0, lists)),
                           call.historical_capacities)
  /\ UNCHANGED <<raw_files, dataset, facility_types, last, aliases>>

NextCapacityChange == \E lists \in CapacityLists : AuditCapacities(lists)

SpecCapacityChange == InitCapacityChange /\ [][NextCapacityChange]_vars

\* the capacities parsed for a facility from today's scrapes, in scrape order
ParsedToday(f) ==
  LET facs == Flatten([k \in DOMAIN call.today_scrapes |->
                 extract_facilities_from_scrape(call.today_scrapes[k])])
  IN SelectSeq(facs, LAMBDA x : x.type = f[1] /\ x.name = f[2] /\ x.capacity # None)

\* the issues of a list that name a facility
IssuesOf(issues, f) == SelectSeq(issues, LAMBDA x : x.facility = f)

\* C12: for every facility whose raw_occupancy parses to a capacity in
\* today's scrapes (the capacity parsed first) and that has a historical
\* capacity, the capacity-change check reports exactly one issue holding
\* both numbers if the capacities differ and none if they are equal; a
\* facility without historical capacity or without parsed capacity gets no
\* issue.
C12_CapacityChanges ==
  call.op = "check_capacity_changes" =>
    \A f \in {Nordbad, NordbadSauna} :
      LET parsed == ParsedToday(f)
          mine == IssuesOf(call.issues, f)
      IN IF /\ parsed # <<>>
            /\ f \in DOMAIN call.historical_capacities
            /\ parsed[1].capacity[1] # call.historical_capacities[f]
         THEN mine = <<CapacityIssue(f, call.historical_capacities[f],
                                     parsed[1].capacity[1])>>
         ELSE mine = <<>>

(***************************************************************************)
(* The raw-scrape auditor: scrape gaps.  The scrape directory is the       *)
(* sequence of its files in the order of their names.  Specification       *)
(* SpecGaps.                                                               *)
(***************************************************************************)
\* the most files of the scrape directory, and the latest hour of a scrape
MaxGapFiles == 3

MaxGapHour == 4

\* a file of the scrape directory: the date in its name and its content
ScrapeFile(date, data) == [date |-> date, data |-> data]

\* the files matching pool_data_{date}_*.json that parse and carry a
\* scrape_timestamp
load_scrapes_for_date(scrape_dir, target_date) ==
  LET usable(file) == /\ file.date = target_date
                      /\ ~file.data.malformed
                      /\ file.data.scrape_timestamp # None
      files == SelectSeq(scrape_dir, usable)
  IN [k \in DOMAIN files |->
        Scrape(files[k].data.scrape_timestamp[1], files[k].data.lists)]

\* sorted() of a sequence of timestamps
RECURSIVE SortedTimes(_)
SortedTimes(ts) ==
  IF ts = <<>> THEN <<>>
  ELSE LET m == Min(Range(ts))
           i == CHOOSE k \in DOMAIN ts : ts[k] = m
       IN <<m>> \o SortedTimes(SubSeq(ts, 1, i - 1) \o SubSeq(ts, i + 1, Len(ts)))

\* variant: only a gap above the threshold is reported
GapExceeded(gap) == gap > GAP_THRESHOLD_HOURS

GapReached(gap) == gap >= GAP_THRESHOLD_HOURS

GapIssue(from, to) ==
  [issue |-> "Scrape gap", gap |-> to - from, from |-> from, to |-> to]

InsufficientIssue(n) == [issue |-> "Insufficient scrapes", scrapes |-> n]

check_scrape_gaps(scrape_dir, target_date) ==
  LET scrapes == load_scrapes_for_date(scrape_dir, target_date)
      timestamps == SortedTimes([k \in DOMAIN scrapes |-> scrapes[k]._parsed_timestamp])
  IN IF Len(scrapes) < 2 THEN <<InsufficientIssue(Len(scrapes))>>
     ELSE Flatten([i \in 1..(Len(timestamps) - 1) |->
            IF GapReached(timestamps[i + 1] - timestamps[i])
            THEN <<GapIssue(timestamps[i], timestamps[i + 1])>>
            ELSE <<>>])

\* the files a scrape directory can hold
GapFiles ==
  {ScrapeFile("today", Malformed), ScrapeFile("today", Doc(None, <<>>)),
   ScrapeFile("yesterday", Doc(Some(0), <<>>))}
  \cup {ScrapeFile("today", Doc(Some(h), <<>>)) : h \in 0..MaxGapHour}

GapAudit(scrape_dir) ==
  [op |-> "check_scrape_gaps", scrape_dir |-> scrape_dir,
   issues |-> check_scrape_gaps(scrape_dir, "today")]

InitGaps ==
  /\ PipelineIdle
  /\ call = GapAudit(<<>>)

\* one more file is in the scrape directory and the gap check runs
AuditGaps(file) ==
  /\ Len(call.scrape_dir) < MaxGapFiles
  /\ call' = GapAudit(Append(call.scrape_dir, file))
  /\ UNCHANGED <<raw_files, dataset, facility_types, last, aliases>>

NextGaps == \E file \in GapFiles : AuditGaps(file)

SpecGaps == InitGaps /\ [][NextGaps]_vars

\* the positions of today's scrapes in the directory
TodayScrapes ==
  {k \in DOMAIN call.scrape_dir :
     /\ call.scrape_dir[k].date = "today"
     /\ ~call.scrape_dir[k].data.malformed
     /\ call.scrape_dir[k].data.scrape_timestamp # None}

TodayTimes == {call.scrape_dir[k].data.scrape_timestamp[1] : k \in TodayScrapes}

\* the pairs of timestamps that are consecutive in sorted order and at
\* least two hours apart
WideGaps ==
  {p \in TodayTimes \X TodayTimes :
     /\ p[2] - p[1] >= 2
     /\ ~\E t \in TodayTimes : p[1] < t /\ t < p[2]}

\* C13: with at least 2 scrapes of the day the gap check reports exactly
\* one issue per pair of consecutive timestamps at least 2 hours apart, in
\* ascending order, and nothing else; with fewer than 2 scrapes it reports
\* exactly one "insufficient scrapes" issue.
C13_ScrapeGaps ==
  call.op = "check_scrape_gaps" =>
    IF Cardinality(TodayScrapes) >= 2
    THEN /\ ListsOnce([k \in DOMAIN call.issues |->
                         <<call.issues[k].from, call.issues[k].to>>], WideGaps)
         /\ \A k \in DOMAIN call.issues :
              /\ call.issues[k].issue = "Scrape gap"
              /\ k > 1 => call.issues[k - 1].to <= call.issues[k].from
    ELSE call.issues = <<InsufficientIssue(Cardinality(TodayScrapes))>>

\* C13 witness: three scrapes out of order, one gap of exactly two hours
\* reported and a smaller one not.
C13_Witness ==
  /\ call.op = "check_scrape_gaps"
  /\ Cardinality(TodayScrapes) = 3
  /\ Len(call.issues) = 1
  /\ call.issues[1].gap = 2
  /\ TodayTimes = {0, 1, 3}
  /\ call.scrape_dir[1].data.scrape_timestamp = Some(3)

(***************************************************************************)
(* The compiled-data auditor (check_compiled_data.py).  A frame is the     *)
(* sequence of the rows of the dataset, timestamps are hours, Now is the   *)
(* hour at which the auditor runs.                                         *)
(***************************************************************************)
Now == 60

\* the window of the recent facility types and of the invalid records
RECENT_HOURS == 24

DataRow(ts, name, type, occ, hour) ==
  [timestamp |-> ts, facility_name |-> name, facility_type |-> type,
   occupancy_percent |-> occ, hour |-> hour]

\* df[df["timestamp"] >= now - timedelta(hours=hours)]
Recent(df, hours) == SelectSeq(df, LAMBDA r : r.timestamp >= Now - hours)

\* variant: the types of the whole frame
facility_types_of_all(df) == {df[k].facility_type : k \in DOMAIN df}

get_recent_facility_types(df) ==
  LET recent == Recent(df, RECENT_HOURS)
  IN {recent[k].facility_type : k \in DOMAIN recent}

\* sorted() of a set of facility types
RECURSIVE SortedTypes(_)
SortedTypes(S) ==
  IF S = {} THEN <<>>
  ELSE LET m == CHOOSE x \in S : \A y \in S : TypeRank(x) <= TypeRank(y)
       IN <<m>> \o SortedTypes(S \ {m})

NewTypeIssue(type) == [issue |-> "New facility type", facility_type |-> type]

MissingTypeIssue(type) == [issue |-> "Missing facility type", facility_type |-> type]

check_new_facility_types(df, historical_types) ==
  LET sorted == SortedTypes(get_recent_facility_types(df) \ historical_types)
  IN [k \in DOMAIN sorted |-> NewTypeIssue(sorted[k])]

check_missing_facility_types(df, historical_types) ==
  LET sorted == SortedTypes(historical_types \ get_recent_facility_types(df))
  IN [k \in DOMAIN sorted |-> MissingTypeIssue(sorted[k])]

(***************************************************************************)
(* Facility-type checks.  Specification SpecTypes.                         *)
(***************************************************************************)
\* the most rows of the frame
MaxTypeRows == 3

\* the facility types, in sorted order
TypeOrder == <<"ice_rink", "pool", "sauna">>

\* rows older than the window, at its edge and at the present hour
TypeRows ==
  {DataRow(ts, "Nordbad", type, Some(50), Some(12)) :
     ts \in {Now - RECENT_HOURS - 1, Now - RECENT_HOURS, Now},
     type \in Range(TypeOrder)}

TypeAudit(df, historical_types) ==
  [op |-> "facility_type_checks", df |-> df, historical_types |-> historical_types,
   new |-> check_new_facility_types(df, historical_types),
   missing |-> check_missing_facility_types(df, historical_types)]

InitTypes ==
  /\ PipelineIdle
  /\ call \in {TypeAudit(<<>>, h) : h \in SUBSET Range(TypeOrder)}

\* the dataset has one more row and the two facility-type checks run
AuditTypes(row) ==
  /\ Len(call.df) < MaxTypeRows
  /\ call.df # <<>> => call.df[Len(call.df)].timestamp <= row.timestamp
  /\ call' = TypeAudit(Append(call.df, row), call.historical_types)
  /\ UNCHANGED <<raw_files, dataset, facility_types, last, aliases>>

NextTypes == \E row \in TypeRows : AuditTypes(row)

SpecTypes == InitTypes /\ [][NextTypes]_vars

\* the types an issue list reports, in order
ReportedTypes(issues) == [k \in DOMAIN issues |-> issues[k].facility_type]

\* a sequence of types follows the sorted order
InTypeOrder(seq) ==
  \A i, j \in DOMAIN seq :
    i < j => \E a, b \in DOMAIN TypeOrder :
               a < b /\ TypeOrder[a] = seq[i] /\ TypeOrder[b] = seq[j]

\* C16: with H the historical types and R the types with a record in the
\* trailing 24 hours, check_new_facility_types reports each type of R \ H
\* once, check_missing_facility_types each type of H \ R once, both in
\* sorted order, and no type is reported by both.
C16_TypeDifferences ==
  call.op = "facility_type_checks" =>
    LET H == call.historical_types
        R == {call.df[k].facility_type :
                k \in {i \in DOMAIN call.df : Now - call.df[i].timestamp <= 24}}
    IN /\ ListsOnce(ReportedTypes(call.new), R \ H)
       /\ ListsOnce(ReportedTypes(call.missing), H \ R)
       /\ InTypeOrder(ReportedTypes(call.new))
       /\ InTypeOrder(ReportedTypes(call.missing))
       /\ Range(ReportedTypes(call.new)) \cap Range(ReportedTypes(call.missing)) = {}

\* C16 witness: two new types and one missing type, the missing one with a
\* record just older than the window.
C16_Witness ==
  /\ call.op = "facility_type_checks"
  /\ ReportedTypes(call.new) = <<"ice_rink", "sauna">>
  /\ ReportedTypes(call.missing) = <<"pool">>
  /\ \E k \in DOMAIN call.df : call.df[k].facility_type = "pool"
  /\ call.df[Len(call.df)].facility_type = "ice_rink"

(***************************************************************************)
(* Invalid occupancy.  The frame holds one reading per hour, the first     *)
(* one hour older than the window.  Specification SpecInvalid.             *)
(***************************************************************************)
\* the number of invalid records that are reported one by one
HeadLimit == 10

\* the most rows of the frame
MaxInvalidRows == 13

InvalidIssue(row) ==
  [issue |-> "Invalid occupancy", facility |-> <<row.facility_type, row.facility_name>>,
   occupancy_percent |-> row.occupancy_percent, timestamp |-> row.timestamp]

RollupIssue(count) == [issue |-> "more invalid occupancy records", count |-> count]

\* variant: the rollup counts every invalid record
RollupCountAll(invalid) == Len(invalid)

RollupCount(invalid) == Len(invalid) - HeadLimit

check_invalid_occupancy(df) ==
  LET recent == Recent(df, RECENT_HOURS)
      invalid == SelectSeq(recent, LAMBDA r : Gt(r.occupancy_percent, 100))
      head == SubSeq(invalid, 1, IF Len(invalid) < HeadLimit THEN Len(invalid) ELSE HeadLimit)
  IN [k \in DOMAIN head |-> InvalidIssue(head[k])]
     \o (IF Len(invalid) > HeadLimit THEN <<RollupIssue(RollupCount(invalid))>> ELSE <<>>)

InvalidAudit(df) ==
  [op |-> "check_invalid_occupancy", df |-> df, issues |-> check_invalid_occupancy(df)]

InitInvalid ==
  /\ PipelineIdle
  /\ call = InvalidAudit(<<>>)

\* the reading of the next hour is in the dataset and the check runs
AuditInvalid(occ) ==
  /\ Len(call.df) < MaxInvalidRows
  /\ call' = InvalidAudit(Append(call.df,
       DataRow(Now - RECENT_HOURS - 1 + Len(call.df), "Nordbad", "pool", occ, Some(12))))
  /\ UNCHANGED <<raw_files, dataset, facility_types, last, aliases>>

NextInvalid == \E occ \in {Some(100), Some(101)} : AuditInvalid(occ)

SpecInvalid == InitInvalid /\ [][NextInvalid]_vars

\* the positions of the records of the trailing 24 hours above 100
InvalidRecords ==
  {k \in DOMAIN call.df :
     /\ Now - call.df[k].timestamp <= 24
     /\ call.df[k].occupancy_percent # None
     /\ call.df[k].occupancy_percent[1] > 100}

\* C15: with n records of the trailing 24 hours above 100, the check returns
\* an individual issue for each of the first min(n, 10) of them in dataset
\* order, followed by one rollup issue stating n - 10 when n > 10, and
\* nothing else.
C15_InvalidOccupancy ==
  call.op = "check_invalid_occupancy" =>
    LET n == Cardinality(InvalidRecords)
        m == IF n < 10 THEN n ELSE 10
        first == SubSeq(Sorted(InvalidRecords), 1, m)
    IN /\ Len(call.issues) = IF n > 10 THEN 11 ELSE n
       /\ \A k \in 1..m : call.issues[k] = InvalidIssue(call.df[first[k]])
       /\ n > 10 => call.issues[11] = RollupIssue(n - 10)

\* C15 witness: twelve invalid records, ten reported one by one and a rollup
\* of two; the record older than the window is invalid too.
C15_Witness ==
  /\ call.op = "check_invalid_occupancy"
  /\ Cardinality(InvalidRecords) = 12
  /\ Len(call.issues) = 11
  /\ call.issues[11].count = 2
  /\ call.df[1].occupancy_percent = Some(101)

(***************************************************************************)
(* Extended zero occupancy.  Specification SpecZero.                       *)
(***************************************************************************)
\* the window of the check, the span that is reported and the daytime hours
ZERO_WINDOW_HOURS == 48

EXTENDED_ZERO_THRESHOLD_HOURS == 8

DAYTIME_START_HOUR == 6

DAYTIME_END_HOUR == 22

\* the most rows of the frame
MaxZeroRows == 3

\* variant: readings of every hour count
AnyHour(r) == TRUE

\* (hour >= DAYTIME_START_HOUR) & (hour < DAYTIME_END_HOUR)
Daytime(r) == Ge(r.hour, DAYTIME_START_HOUR) /\ Lt(r.hour, DAYTIME_END_HOUR)

ZeroIssue(key, duration) ==
  [issue |-> "Extended zero occupancy", facility |-> key, duration |-> duration]

check_extended_zero_occupancy(df, threshold_hours) ==
  LET recent == SelectSeq(Recent(df, ZERO_WINDOW_HOURS), Daytime)
      groups == SortedTuples({<<recent[k].facility_type, recent[k].facility_name>> :
                                k \in DOMAIN recent})
  IN Flatten([g \in DOMAIN groups |->
       LET zero_records ==
             SelectSeq(recent, LAMBDA r :
               /\ <<r.facility_type, r.facility_name>> = groups[g]
               /\ r.occupancy_percent = Some(0))
           timestamps == SortedTimes([k \in DOMAIN zero_records |-> zero_records[k].timestamp])
       IN IF Len(timestamps) < 2 THEN <<>>
          ELSE IF timestamps[Len(timestamps)] - timestamps[1] >= threshold_hours
          THEN <<ZeroIssue(groups[g], timestamps[Len(timestamps)] - timestamps[1])>>
          ELSE <<>>])

\* the timestamps of the rows: outside the window, and 8, 7 and 0 hours ago
ZeroTimes ==
  {Now - ZERO_WINDOW_HOURS - 1, Now - EXTENDED_ZERO_THRESHOLD_HOURS,
   Now - EXTENDED_ZERO_THRESHOLD_HOURS + 1, Now}

\* two facilities of the same name
ZeroRows ==
  {DataRow(ts, "Nordbad", type, occ, hour) :
     ts \in ZeroTimes, type \in {"pool", "sauna"}, occ \in {Some(0), Some(50)},
     hour \in {Some(DAYTIME_START_HOUR - 1), Some(DAYTIME_START_HOUR),
               Some(DAYTIME_END_HOUR - 1), Some(DAYTIME_END_HOUR)}}

ZeroAudit(df) ==
  [op |-> "check_extended_zero_occupancy", df |-> df,
   issues |-> check_extended_zero_occupancy(df, EXTENDED_ZERO_THRESHOLD_HOURS)]

InitZero ==
  /\ PipelineIdle
  /\ call = ZeroAudit(<<>>)

\* the dataset has one more row, after the rows it holds, and the check runs
AuditZero(row) ==
  /\ Len(call.df) < MaxZeroRows
  /\ call.df # <<>> =>
       LET prev == call.df[Len(call.df)]
       IN \/ prev.timestamp < row.timestamp
          \/ /\ prev.timestamp = row.timestamp
             /\ TypeRank(prev.facility_type) < TypeRank(row.facility_type)
  /\ call' = ZeroAudit(Append(call.df, row))
  /\ UNCHANGED <<raw_files, dataset, facility_types, last, aliases>>

NextZero == \E row \in ZeroRows : AuditZero(row)

SpecZero == InitZero /\ [][NextZero]_vars

\* the zero readings of a facility in the trailing 48 hours tagged with an
\* hour in [6, 22)
ZeroReadings(f) ==
  {k \in DOMAIN call.df :
     /\ <<call.df[k].facility_type, call.df[k].facility_name>> = f
     /\ Now - call.df[k].timestamp <= 48
     /\ call.df[k].hour # None
     /\ call.df[k].hour[1] \in 6..21
     /\ call.df[k].occupancy_percent = Some(0)}

MaxRuns == 2

\* the checks of each auditor in the order main runs them
Checks(auditor) ==
  IF auditor = "raw"
  THEN <<"Missing facility", "New facility", "Capacity change", "Scrape gap">>
  ELSE <<"New facility type", "Missing facility type", "Invalid occupancy",
         "Extended zero occupancy">>

\* the title and body of the aggregated submission
Submission(auditor, all_issues) ==
  [title |-> IF auditor = "raw" THEN "Data Irregularities Detected - Raw Scrapes"
             ELSE "Data Irregularities Detected - Compiled Data",
   body |-> all_issues]

\* variant: an error of the tracker tool is not caught
create_github_issue_unguarded(submission, dry_run, gh) ==
  IF dry_run THEN [invoked |-> <<>>, created |-> <<>>, returned |-> Some(TRUE), raised |-> FALSE]
  ELSE IF gh = "ok"
  THEN [invoked |-> <<submission>>, created |-> <<submission>>, returned |-> Some(TRUE),
        raised |-> FALSE]
  ELSE [invoked |-> IF gh = "error" THEN <<submission>> ELSE <<>>, created |-> <<>>,
        returned |-> None, raised |-> TRUE]

\* gh is "ok", "error" (CalledProcessError) or "missing" (FileNotFoundError);
\* invoked are the submissions handed to the gh tool, created the issues the
\* tracker accepted
create_github_issue(submission, dry_run, gh) ==
  IF dry_run THEN [invoked |-> <<>>, created |-> <<>>, returned |-> Some(TRUE), raised |-> FALSE]
  ELSE IF gh = "ok"
  THEN [invoked |-> <<submission>>, created |-> <<submission>>, returned |-> Some(TRUE),
        raised |-> FALSE]
  ELSE [invoked |-> <<submission>>, created |-> <<>>, returned |-> Some(FALSE),
        raised |-> FALSE]

\* what the checks of a run can return: nothing or one finding each
CheckResults(auditor) ==
  {[k \in 1..4 |-> IF k \in S THEN <<[issue |-> Checks(auditor)[k]]>> ELSE <<>>] :
     S \in SUBSET (1..4)}

NoReport == [invoked |-> <<>>, created |-> <<>>, returned |-> None, raised |-> FALSE]

InitReport ==
  /\ PipelineIdle
  /\ call = [op |-> "audit", runs |-> 0, tracker |-> <<>>, auditor |-> "none",
             results |-> <<>>, all_issues |-> <<>>, dry_run |-> FALSE, gh |-> "ok",
             report |-> NoReport, outcome |-> "none"]

\* one run of main() of an auditor
AuditRun(auditor, results, dry_run, gh) ==
  LET all_issues == Flatten(results)
      report == IF all_issues # <<>>
                THEN create_github_issue(Submission(auditor, all_issues), dry_run, gh)
                ELSE NoReport
  IN /\ call.runs < MaxRuns
     /\ call' = [op |-> "audit", runs |-> call.runs + 1,
                 tracker |-> call.tracker \o report.created,
                 auditor |-> auditor, results |-> results, all_issues |-> all_issues,
                 dry_run |-> dry_run, gh |-> gh, report |-> report,
                 outcome |-> IF report.raised THEN "failed" ELSE "completed"]
     /\ UNCHANGED <<raw_files, dataset, facility_types, last, aliases>>

NextReport ==
  \E auditor \in {"raw", "compiled"}, dry_run \in BOOLEAN,
     gh \in {"ok", "error", "missing"} :
    \E results \in CheckResults(auditor) : AuditRun(auditor, results, dry_run, gh)

SpecReport == InitReport /\ [][NextReport]_vars

\* the findings of the latest run, check by check
Findings ==
  call.results[1] \o call.results[2] \o call.results[3] \o call.results[4]

\* C20: a run with findings hands exactly one submission, listing every
\* finding in check order, to the tracker tool, and a run without findings
\* none, whatever the tracker already holds; in dry-run nothing is submitted
\* and the reporter returns success; when the tracker tool fails or is
\* missing the reporter returns failure, nothing is created and the run
\* still completes.
C20_IssueReporting ==
  call.runs > 0 =>
    /\ call.outcome = "completed"
    /\ Findings = <<>> => call.report.invoked = <<>> /\ call.report.returned = None
    /\ Findings # <<>> /\ call.dry_run =>
         call.report.invoked = <<>> /\ call.report.returned = Some(TRUE)
    /\ Findings # <<>> /\ ~call.dry_run =>
         /\ Len(call.report.invoked) = 1
         /\ call.report.invoked[1].body = Findings
         /\ call.report.returned = Some(call.gh = "ok")
         /\ call.report.created = IF call.gh = "ok" THEN call.report.invoked ELSE <<>>

\* C20 witness: the second run reports the findings the tracker already
\* holds from the first run once more.
C20_Witness ==
  /\ call.runs = 2
  /\ Len(call.tracker) = 2
  /\ call.tracker[1] = call.tracker[2]
  /\ Len(call.tracker[2].body) > 1

(***************************************************************************)
(* Error handling of the merge pipeline (specification Spec).              *)
(***************************************************************************)
\* C18: in a merge run a raw file that is malformed JSON or lacks the
\* top-level scrape_timestamp contributes no observation to the batch, every
\* other file that the cutoff admits contributes all of its observations,
\* and the run is not aborted.
C18_BadFilesSkipped ==
  last.outcome # "none" =>
    /\ last.outcome \in {"early", "saved"}
    /\ \A i \in last.input_dir :
         IF ~RawFile(i).malformed /\ RawFile(i).scrape_timestamp # None
         THEN \/ last.loaded[i] = AllObservations(i)
              \/ /\ last.before.rows # <<>>
                 /\ RawFile(i).scrape_timestamp[1] < Cutoff(last.before.rows)
                 /\ last.loaded[i] = <<>>
         ELSE last.loaded[i] = <<>>

\* C19: a merge run that has nothing to add, because no observation was
\* admitted or because validation dropped every admitted observation, leaves
\* the persisted dataset and the facility-type lookup as they were.
C19_EmptyRunChangesNothing ==
  [][(last' # last /\ last'.validated_df = <<>>) =>
       (dataset' = dataset /\ facility_types' = facility_types)]_vars

(***************************************************************************)
(* The cutoff, late files and invalid observations in the merge pipeline   *)
(* (specification Spec).                                                   *)
(***************************************************************************)
\* C22: the cutoff of a run is the maximum timestamp of the persisted
\* dataset, and every raw file whose scrape_timestamp is at or before that
\* cutoff contributes nothing to the run.
C22_CutoffExcludesAtOrBefore ==
  last.outcome # "none" /\ last.before.rows # <<>> =>
    /\ last.since = Some(Cutoff(last.before.rows))
    /\ \A i \in last.input_dir :
         WellFormed(i) /\ RawFile(i).scrape_timestamp[1] <= Cutoff(last.before.rows)
           => last.loaded[i] = <<>>

\* the keys of the in-range observations of a raw file
InRangeKeys(i) ==
  {Key(AllObservations(i)[k]) :
     k \in {j \in DOMAIN AllObservations(i) : InRange(AllObservations(i)[j])}}

\* the keys of the persisted dataset, timestamps parsed back
DatasetKeys ==
  {<<ParseTimestamp(dataset.rows[k].timestamp), dataset.rows[k].facility_name,
     dataset.rows[k].facility_type>> : k \in DOMAIN dataset.rows}

\* C26 as stated: after each run, every in-range observation of every
\* well-formed raw file present at that run is in the persisted dataset.
C26_NoObservationLost ==
  last.outcome # "none" /\ last.input_dir = raw_files =>
    \A i \in last.input_dir : WellFormed(i) => InRangeKeys(i) \subseteq DatasetKeys

\* C26: after a run, every in-range observation of every raw file the run
\* admitted is in the persisted dataset (by key); a well-formed file whose
\* scrape_timestamp is before the cutoff of the run is skipped whole, also
\* when it was added late.
C26_AdmittedObservationsPersisted ==
  last.outcome # "none" =>
    \A i \in last.input_dir :
      /\ (/\ WellFormed(i)
          /\ last.before.rows # <<>>
          /\ RawFile(i).scrape_timestamp[1] < Cutoff(last.before.rows))
           => last.loaded[i] = <<>>
      /\ last.loaded[i] # <<>> => InRangeKeys(i) \subseteq DatasetKeys

\* C26 witness: a run skipped a late file, one of whose in-range
\* observations is not in the dataset, and persisted those of another file.
C26_Witness ==
  /\ last.outcome = "saved"
  /\ last.before.rows # <<>>
  /\ \E i, j \in last.input_dir :
       /\ WellFormed(i)
       /\ last.loaded[i] = <<>>
       /\ ~(InRangeKeys(i) \subseteq DatasetKeys)
       /\ last.loaded[j] # <<>>
       /\ InRangeKeys(j) # {}
       /\ InRangeKeys(j) \subseteq DatasetKeys

\* the persisted row of a key, if any
RowsOfKey(rows, key) ==
  SelectSeq(rows, LAMBDA x :
    <<ParseTimestamp(x.timestamp), x.facility_name, x.facility_type>> = key)

\* the keys of the rows persisted before the latest run for which that run
\* admitted an observation outside [0, 100]
DisplacementCandidates ==
  {key \in {Key(last.pool_df[k]) : k \in {j \in DOMAIN last.pool_df : OutOfRange(last.pool_df[j])}} :
     RowsOfKey(last.before.rows, key) # <<>>}

\* C28: a new observation outside [0, 100] neither replaces nor removes the
\* persisted row of its key: the key stays, its row never holds the invalid
\* value, and when the run admitted only invalid observations of that key
\* the row is the one persisted before.
C28_InvalidNeverDisplaces ==
  last.outcome # "none" =>
    \A key \in DisplacementCandidates :
      /\ Len(RowsOfKey(dataset.rows, key)) = 1
      /\ ~OutOfRange(RowsOfKey(dataset.rows, key)[1])
      /\ (\A k \in DOMAIN last.pool_df :
            Key(last.pool_df[k]) = key => OutOfRange(last.pool_df[k]))
           => RowsOfKey(dataset.rows, key) = RowsOfKey(last.before.rows, key)

\* C28 witness: a run that persisted met an invalid observation of a key
\* that was in the dataset before.
C28_Witness ==
  /\ last.outcome = "saved"
  /\ DisplacementCandidates # {}

\* the rows of a batch before position k that share the key of row k
EarlierSameKey(df, k) ==
  SelectSeq(SubSeq(df, 1, k - 1), LAMBDA x : Key(x) = Key(df[k]))

\* row k of the batch of a run came out of the validator
KeptByValidator(run, k) ==
  \E j \in DOMAIN run.validated_df : run.validated_df[j] = run.pool_df[k]

\* C29: the validator treats a row by that row and the earlier rows of its
\* key alone: two runs that meet the same row after the same earlier rows of
\* its key both keep it or both drop it.
C29_RowwiseValidation ==
  [][\A k \in DOMAIN last.pool_df, j \in DOMAIN last'.pool_df :
       (/\ last.pool_df[k] = last'.pool_df[j]
        /\ EarlierSameKey(last.pool_df, k) = EarlierSameKey(last'.pool_df, j))
         => (KeptByValidator(last, k) <=> KeptByValidator(last', j))]_vars

\* the latest observation timestamp of the raw files
LatestTimestamp ==
  Max({ParseTimestamp(FormatTimestamp(f.timestamp)) :
         f \in UNION {Range(Flatten(RawFile(i).lists)) : i \in 1..NumFiles}})

\* the dataset as the compiled-data auditor loads it, the auditor running
\* at the hour of the latest raw observation
load_historical_data(csv) ==
  [k \in DOMAIN csv.rows |->
     DataRow(Now - LatestTimestamp + ParseTimestamp(csv.rows[k].timestamp),
             csv.rows[k].facility_name, csv.rows[k].facility_type,
             csv.rows[k].occupancy_percent, None)]

\* C30: every persisted row with a present occupancy_percent has it within
\* [0, 100], and the invalid-occupancy check of the compiled-data auditor
\* reports nothing on the persisted dataset.
C30_PersistedInRange ==
  /\ \A k \in DOMAIN dataset.rows :
       dataset.rows[k].occupancy_percent # None =>
         dataset.rows[k].occupancy_percent[1] \in 0..100
  /\ check_invalid_occupancy(load_historical_data(dataset)) = <<>>

\* C30 witness: a run whose batch held an observation above 100 persisted
\* rows, all within the window of the check.
C30_Witness ==
  /\ last.outcome = "saved"
  /\ \E k \in DOMAIN last.pool_df : Gt(last.pool_df[k].occupancy_percent, 100)
  /\ dataset.rows # <<>>
  /\ Len(Recent(load_historical_data(dataset), RECENT_HOURS)) = Len(dataset.rows)

(***************************************************************************)
(* The raw-scrape auditor: the historical baseline.  Dates are day         *)
(* numbers, Today is the day the auditor runs; the scrape directory is the *)
(* sequence of its files in the order of their names, which carry date and *)
(* time.  Specification SpecHistory.                                       *)
(***************************************************************************)
HISTORICAL_DAYS == 30

Today == 40

\* the most files of the scrape directory
MaxHistoryFiles == 3

\* today - timedelta(days=day_offset) for day_offset in range(1, days + 1)
TargetDates(days) == [k \in 1..days |-> Today - k]

\* the facilities of the historical scrapes in scan order
HistoricalScan(scrape_dir, days) ==
  LET dates == TargetDates(days)
  IN Flatten([k \in DOMAIN dates |->
       LET scrapes == load_scrapes_for_date(scrape_dir, dates[k])
       IN Flatten([j \in DOMAIN scrapes |-> extract_facilities_from_scrape(scrapes[j])])])

get_historical_facilities(scrape_dir, days) ==
  {<<f.type, f.name>> : f \in Range(HistoricalScan(scrape_dir, days))}

\* the dict of the first truthy capacity of each key
get_historical_capacities(scrape_dir, days) ==
  LET capacities == TodayCapacities(HistoricalScan(scrape_dir, days))
  IN [key \in {capacities[k][1] : k \in DOMAIN capacities} |->
        capacities[CHOOSE k \in DOMAIN capacities : capacities[k][1] = key][2]]

\* the dates of the files: today, the two days before it, and the days at
\* and beyond the end of the window
HistoryDates ==
  {Today, Today - 1, Today - 2, Today - HISTORICAL_DAYS, Today - HISTORICAL_DAYS - 1}

\* what a file lists: Nordbad with a raw_occupancy, or Westbad without one
HistoryLists ==
  {<< <<ScrapeFac("Nordbad", Some("pool"), raw)>> >> : raw \in RawOccupancies}
  \cup {<< <<ScrapeFac("Westbad", Some("pool"), None)>> >>}

HistoryAudit(scrape_dir) ==
  [op |-> "historical_baseline", scrape_dir |-> scrape_dir,
   historical_facilities |-> get_historical_facilities(scrape_dir, HISTORICAL_DAYS),
   historical_capacities |-> get_historical_capacities(scrape_dir, HISTORICAL_DAYS)]

InitHistory ==
  /\ PipelineIdle
  /\ call = HistoryAudit(<<>>)

\* one more file, named after the files present, is in the scrape
\* directory and the auditor builds its baseline; the scrape_timestamp of a
\* file follows the order of the names
AuditHistory(date, lists) ==
  /\ Len(call.scrape_dir) < MaxHistoryFiles
  /\ call.scrape_dir # <<>> => call.scrape_dir[Len(call.scrape_dir)].date <= date
  /\ call' = HistoryAudit(Append(call.scrape_dir,
               ScrapeFile(date, Doc(Some(Len(call.scrape_dir) + 1), lists))))
  /\ UNCHANGED <<raw_files, dataset, facility_types, last, aliases>>

NextHistory == \E date \in HistoryDates, lists \in HistoryLists : AuditHistory(date, lists)

SpecHistory == InitHistory /\ [][NextHistory]_vars

\* the positions of the files dated 1 to 30 days before today
HistoricalFiles ==
  {k \in DOMAIN call.scrape_dir :
     Today - call.scrape_dir[k].date \in 1..30}

\* the capacity a file states for a facility, None when it states none
StatedCapacity(k, f) ==
  LET facs == SelectSeq(extract_facilities_from_scrape(
                          Scrape(k, call.scrape_dir[k].data.lists)),
                        LAMBDA x : <<x.type, x.name>> = f /\ x.capacity # None)
  IN IF facs = <<>> THEN None ELSE facs[1].capacity

\* file k is scanned before file j: a later day first, within a day the
\* earlier file first
ScannedBefore(k, j) ==
  \/ call.scrape_dir[k].date > call.scrape_dir[j].date
  \/ call.scrape_dir[k].date = call.scrape_dir[j].date /\ k < j

\* C24: the historical facilities are those of the files dated 1 to 30 days
\* before today, and the capacity recorded for a facility is the first
\* parsed capacity met in scan order, from those files only.
C24_HistoricalBaseline ==
  call.op = "historical_baseline" =>
    /\ call.historical_facilities =
         {f \in {Nordbad, Westbad} :
            \E k \in HistoricalFiles :
              \E j \in DOMAIN call.scrape_dir[k].data.lists[1] :
                call.scrape_dir[k].data.lists[1][j].pool_name = f[2]}
    /\ \A f \in {Nordbad, Westbad} :
         LET stating == {k \in HistoricalFiles : StatedCapacity(k, f) # None}
         IN IF stating = {} THEN f \notin DOMAIN call.historical_capacities
            ELSE /\ f \in DOMAIN call.historical_capacities
                 /\ \E k \in stating :
                      /\ \A j \in stating \ {k} : ScannedBefore(k, j)
                      /\ call.historical_capacities[f] = StatedCapacity(k, f)[1]

\* C25 as stated: the capacity recorded for a facility is the one parsed
\* from the latest historical scrape, by scrape time, that states one.
C25_MostRecentCapacity ==
  call.op = "historical_baseline" =>
    \A f \in {Nordbad, Westbad} :
      LET stating == {k \in HistoricalFiles : StatedCapacity(k, f) # None}
      IN IF stating = {} THEN f \notin DOMAIN call.historical_capacities
         ELSE /\ f \in DOMAIN call.historical_capacities
              /\ \E k \in stating :
                   /\ \A j \in stating :
                        call.scrape_dir[j].data.scrape_timestamp[1]
                          <= call.scrape_dir[k].data.scrape_timestamp[1]
                   /\ call.historical_capacities[f] = StatedCapacity(k, f)[1]

(***************************************************************************)
(* The compiled-data auditor: main derives the historical facility types   *)
(* from the dataset it audits.  Specification SpecTypesMain.               *)
(***************************************************************************)
\* the most rows of the dataset
MaxMainRows == 3

\* the most hours the clock advances between two readings of a run
MaxElapsed == 1

\* variant: the types of the rows older than the cutoff
facility_types_before_cutoff(df, days, now) ==
  {df[k].facility_type : k \in {i \in DOMAIN df : df[i].timestamp < now - days * 24}}

\* now is the reading of the clock by the call
get_historical_facility_types(df, days, now) ==
  {df[k].facility_type : k \in {i \in DOMAIN df : df[i].timestamp >= now - days * 24}}

\* rows around the start of the historical window, around the start of the
\* recent window and at the present hour
MainRows ==
  {DataRow(ts, "Nordbad", type, Some(50), Some(12)) :
     ts \in {Now - HISTORICAL_DAYS * 24 - MaxElapsed - 1,
             Now - HISTORICAL_DAYS * 24 - MaxElapsed,
             Now - RECENT_HOURS - 1, Now - RECENT_HOURS, Now},
     type \in Range(TypeOrder)}

\* main: the historical types are read off the frame first, elapsed hours
\* before the checks read the clock
MainAudit(df, elapsed) ==
  LET historical_types == get_historical_facility_types(df, HISTORICAL_DAYS, Now - elapsed)
  IN [op |-> "compiled_main", df |-> df, elapsed |-> elapsed,
      historical_types |-> historical_types,
      recent_types |-> get_recent_facility_types(df),
      new |-> check_new_facility_types(df, historical_types),
      missing |-> check_missing_facility_types(df, historical_types)]

InitTypesMain ==
  /\ PipelineIdle
  /\ call = MainAudit(<<>>, 0)

\* the dataset has one more row and the auditor runs
AuditMain(row, elapsed) ==
  /\ Len(call.df) < MaxMainRows
  /\ call.df # <<>> => call.df[Len(call.df)].timestamp <= row.timestamp
  /\ call' = MainAudit(Append(call.df, row), elapsed)
  /\ UNCHANGED <<raw_files, dataset, facility_types, last, aliases>>

NextTypesMain == \E row \in MainRows, elapsed \in 0..MaxElapsed : AuditMain(row, elapsed)

SpecTypesMain == InitTypesMain /\ [][NextTypesMain]_vars

\* C27: in a run of the compiled-data auditor every facility type with a
\* record in the trailing 24 hours is among the historical types, and
\* check_new_facility_types reports nothing.
C27_NoNewTypeInMain ==
  call.op = "compiled_main" =>
    /\ {call.df[k].facility_type :
          k \in {i \in DOMAIN call.df : Now - call.df[i].timestamp <= 24}}
         \subseteq call.historical_types
    /\ call.new = <<>>

\* C27 witness: a type first seen within the last 24 hours, a type that is
\* historical only, and a type whose only record is older than 30 days.
C27_Witness ==
  /\ call.op = "compiled_main"
  /\ call.recent_types = {"sauna"}
  /\ call.historical_types = {"pool", "sauna"}
  /\ \E k \in DOMAIN call.df : call.df[k].facility_type = "ice_rink"
  /\ \E k \in DOMAIN call.df :
       call.df[k].facility_type = "sauna" /\ call.df[k].timestamp = Now - 24
  /\ call.missing = <<MissingTypeIssue("pool")>>

(***************************************************************************)
(* Enrichment.  Timestamps of this part are minutes of local (Berlin)      *)
(* time counted from midnight of Friday 30 January, so that the days 0..3  *)
(* are a Friday, a Saturday, a Sunday and a Monday and the month changes   *)
(* between day 1 and day 2.  A timestamp with an offset is the pair of its *)
(* wall-clock minutes and the offset.                                      *)
(***************************************************************************)
\* the offset of a timestamp string in minutes; a string without offset is
\* taken as UTC by pd.to_datetime(..., utc=True)
OffsetMinutes(offset) == IF offset = "+01:00" THEN 60 ELSE 0

\* pd.to_datetime(utc=True), tz_convert("Europe/Berlin"), tz_localize(None);
\* Berlin is at +01:00 in the modelled days
to_berlin_naive(ts) == ts[1] - OffsetMinutes(ts[2]) + 60

\* ts.floor("h")
floor_h(ts) == ts - (ts % 60)

\* dt.date()
DateOf(ts) == ts \div 1440

\* timestamp.dt.month
MonthOf(ts) == IF DateOf(ts) <= 1 THEN 1 ELSE 2

weather_cols == {"temperature_c", "precipitation_mm", "weather_code", "cloud_cover_percent"}

\* one item of the "hourly" list of a weather file; a missing key reads as
\* None
Hourly(ts, temperature) ==
  [timestamp |-> ts, temperature_c |-> temperature, precipitation_mm |-> Some(0),
   weather_code |-> None, cloud_cover_percent |-> Some(50)]

\* the record load_weather_data appends for an item
WeatherRecord(hour_data) ==
  [weather_hour |-> hour_data.timestamp, temperature_c |-> hour_data.temperature_c,
   precipitation_mm |-> hour_data.precipitation_mm,
   weather_code |-> hour_data.weather_code,
   cloud_cover_percent |-> hour_data.cloud_cover_percent]

\* variant: drop_duplicates(subset=["weather_hour"], keep="first")
DropDuplicateHoursFirst(df) ==
  LET keep(k) == \A j \in 1..(k - 1) : df[j].weather_hour # df[k].weather_hour
      RECURSIVE Build(_)
      Build(k) == IF k = 0 THEN <<>>
                  ELSE IF keep(k) THEN Append(Build(k - 1), df[k]) ELSE Build(k - 1)
  IN Build(Len(df))

\* drop_duplicates(subset=["weather_hour"], keep="last")
DropDuplicateHoursLast(df) ==
  LET keep(k) == \A j \in (k + 1)..Len(df) : df[j].weather_hour # df[k].weather_hour
      RECURSIVE Build(_)
      Build(k) == IF k = 0 THEN <<>>
                  ELSE IF keep(k) THEN Append(Build(k - 1), df[k]) ELSE Build(k - 1)
  IN Build(Len(df))

\* set_index("weather_hour").sort_index()
RECURSIVE SortIndex(_)
SortIndex(df) ==
  IF df = <<>> THEN <<>>
  ELSE LET m == CHOOSE k \in DOMAIN df :
                  \A j \in DOMAIN df : df[k].weather_hour <= df[j].weather_hour
       IN <<df[m]>> \o SortIndex(SubSeq(df, 1, m - 1) \o SubSeq(df, m + 1, Len(df)))

\* json_files is the sequence of the "hourly" lists of the weather files in
\* the order of their names
load_weather_data(json_files) ==
  LET hourly == Flatten(json_files)
      records == [k \in DOMAIN hourly |-> WeatherRecord(hourly[k])]
      df == [k \in DOMAIN records |->
               [records[k] EXCEPT !.weather_hour = to_berlin_naive(records[k].weather_hour)]]
  IN SortIndex(DropDuplicateHoursLast(df))

\* the dict of the weather columns of the row of the hour, the empty dict
\* when there is none
align_weather(pool_timestamp, weather_df) ==
  LET hour_start == floor_h(pool_timestamp)
      rows == SelectSeq(weather_df, LAMBDA r : r.weather_hour = hour_start)
  IN IF rows = <<>> THEN <<>>
     ELSE [col \in weather_cols |->
             CASE col = "temperature_c" -> rows[1].temperature_c
               [] col = "precipitation_mm" -> rows[1].precipitation_mm
               [] col = "weather_code" -> rows[1].weather_code
               [] OTHER -> rows[1].cloud_cover_percent]

is_public_holiday(dt, holidays_dict) == DateOf(dt) \in holidays_dict

is_school_vacation(dt, vacations) ==
  \E k \in DOMAIN vacations : vacations[k][1] <= DateOf(dt) /\ DateOf(dt) <= vacations[k][2]

\* public_holidays is the set of the keys of the dict, school_vacations the
\* list of (start, end) pairs
merge_features(pool_df, weather_df, public_holidays, school_vacations) ==
  [k \in DOMAIN pool_df |->
     LET row == pool_df[k]
         weather == align_weather(row.timestamp, weather_df)
         col(c) == IF c \in DOMAIN weather THEN weather[c] ELSE None
     IN row @@ [month |-> MonthOf(row.timestamp),
                is_holiday |-> IF is_public_holiday(row.timestamp, public_holidays)
                               THEN 1 ELSE 0,
                is_school_vacation |-> IF is_school_vacation(row.timestamp, school_vacations)
                                       THEN 1 ELSE 0,
                temperature_c |-> col("temperature_c"),
                precipitation_mm |-> col("precipitation_mm"),
                weather_code |-> col("weather_code"),
                cloud_cover_percent |-> col("cloud_cover_percent")]]

(***************************************************************************)
(* Weather alignment.  Specification SpecWeather.                          *)
(***************************************************************************)
\* the most weather files
MaxWeatherFiles == 2

\* the most items of all "hourly" lists together
MaxWeatherRecords == 3

\* the latest wall-clock hour of a weather item
MaxWeatherHour == 1

\* the observations: alternately on the hour and half past, up to an hour
\* past the last one a weather item can denote
PoolTimestamps == {h * 60 + 30 * (h % 2) : h \in 0..(MaxWeatherHour + 2)}

WeatherAudit(json_files, pool_timestamp) ==
  LET weather_df == load_weather_data(json_files)
      pool_df == <<[timestamp |-> pool_timestamp, facility_name |-> "Nordbad",
                    facility_type |-> "pool", occupancy_percent |-> Some(50)]>>
  IN [op |-> "merge_weather", json_files |-> json_files, pool_df |-> pool_df,
      weather_df |-> weather_df,
      merged_df |-> merge_features(pool_df, weather_df, {}, <<>>)]

InitWeather ==
  /\ PipelineIdle
  /\ call = WeatherAudit(<<>>, 0)

\* one more weather file, without items so far, and an observation is
\* enriched
AddWeatherFile(pool_timestamp) ==
  /\ Len(call.json_files) < MaxWeatherFiles
  /\ call' = WeatherAudit(Append(call.json_files, <<>>), pool_timestamp)
  /\ UNCHANGED <<raw_files, dataset, facility_types, last, aliases>>

\* the last weather file has one more item, whose temperature tells it from
\* the items before it, and an observation is enriched
AddHourly(hour, offset, pool_timestamp) ==
  LET n == Len(call.json_files)
      items == Len(Flatten(call.json_files))
  IN /\ n > 0
     /\ items < MaxWeatherRecords
     /\ call' = WeatherAudit(
                  [call.json_files EXCEPT
                     ![n] = Append(@, Hourly(<<hour * 60, offset>>, Some(items + 1)))],
                  pool_timestamp)
     /\ UNCHANGED <<raw_files, dataset, facility_types, last, aliases>>

NextWeather ==
  \E pool_timestamp \in PoolTimestamps :
    \/ AddWeatherFile(pool_timestamp)
    \/ \E hour \in 0..MaxWeatherHour, offset \in {"+00:00", "+01:00"} :
         AddHourly(hour, offset, pool_timestamp)

SpecWeather == InitWeather /\ [][NextWeather]_vars

\* the items of all weather files in file-sort order
WeatherItems == Flatten(call.json_files)

\* two items denote the same instant
SameHour(a, b) ==
  a.timestamp[1] - OffsetMinutes(a.timestamp[2]) = b.timestamp[1] - OffsetMinutes(b.timestamp[2])

\* the last item in file-sort order of the hour of item k
LastOfHour(k) ==
  WeatherItems[Max({j \in DOMAIN WeatherItems : SameHour(WeatherItems[j], WeatherItems[k])})]

\* the weather columns of a row or an item
Features(r) ==
  <<r.temperature_c, r.precipitation_mm, r.weather_code, r.cloud_cover_percent>>

\* C21: the weather index has one row per hour, the row of an hour is the
\* last item of that hour in file-sort order, and an observation is kept
\* with the features of the row of the hour its timestamp falls in, or
\* with null features when the index has no such row.
C21_WeatherAlignment ==
  call.op = "merge_weather" =>
    /\ \A i, j \in DOMAIN call.weather_df :
         call.weather_df[i].weather_hour = call.weather_df[j].weather_hour => i = j
    /\ \A k \in DOMAIN WeatherItems :
         \E i \in DOMAIN call.weather_df :
           /\ call.weather_df[i].weather_hour = to_berlin_naive(WeatherItems[k].timestamp)
           /\ Features(call.weather_df[i]) = Features(LastOfHour(k))
    /\ \A i \in DOMAIN call.weather_df :
         \E k \in DOMAIN WeatherItems :
           call.weather_df[i].weather_hour = to_berlin_naive(WeatherItems[k].timestamp)
    /\ Len(call.merged_df) = Len(call.pool_df)
    /\ \A k \in DOMAIN call.pool_df :
         LET ts == call.pool_df[k].timestamp
             rows == {i \in DOMAIN call.weather_df :
                        /\ call.weather_df[i].weather_hour <= ts
                        /\ ts < call.weather_df[i].weather_hour + 60}
         IN /\ call.merged_df[k].timestamp = ts
            /\ call.merged_df[k].occupancy_percent = call.pool_df[k].occupancy_percent
            /\ IF rows = {} THEN Features(call.merged_df[k]) = <<None, None, None, None>>
               ELSE \E i \in rows : Features(call.merged_df[k]) = Features(call.weather_df[i])

\* C21 witness: the same hour is in two files, written with two different
\* offsets, and the observation within that hour has the temperature of
\* the item of the later file.
C21_Witness ==
  /\ call.op = "merge_weather"
  /\ Len(call.json_files) = 2
  /\ Len(call.json_files[1]) = 1
  /\ Len(call.json_files[2]) = 1
  /\ call.json_files[1][1].timestamp = <<0, "+00:00">>
  /\ call.json_files[2][1].timestamp = <<60, "+01:00">>
  /\ call.pool_df[1].timestamp = 90
  /\ call.merged_df[1].temperature_c = Some(2)

(***************************************************************************)
(* Calendar features.  Specification SpecFeatures.                         *)
(***************************************************************************)
\* the most observations of the raw file
MaxFeatureRows == 2

\* the last day an observation is of
MaxDay == 3

\* datetime.weekday() of a day, Monday is 0; day 0 is a Friday
Weekday(day) == (4 + day) % 7

\* an observation of a raw file, taken at noon of the day; is_weekend is
\* the flag the raw file carries, None when it carries none
RawObservation(day, is_weekend) ==
  [pool_name |-> "Nordbad", facility_type |-> "pool",
   timestamp |-> <<day * 1440 + 720, "+01:00">>, occupancy_percent |-> Some(50),
   is_open |-> Some(TRUE), hour |-> Some(12), day_of_week |-> Some(Weekday(day)),
   is_weekend |-> is_weekend]

\* the record load_pool_data appends for an observation, its timestamp
\* parsed
PoolRecord(facility) ==
  [timestamp |-> to_berlin_naive(facility.timestamp),
   facility_name |-> facility.pool_name,
   facility_type |-> facility.facility_type,
   occupancy_percent |-> facility.occupancy_percent,
   is_open |-> IF facility.is_open = Some(TRUE) THEN 1 ELSE 0,
   hour |-> facility.hour,
   day_of_week |-> facility.day_of_week,
   is_weekend |-> IF facility.is_weekend = Some(TRUE) THEN 1 ELSE 0]

FeatureAudit(facilities, public_holidays, school_vacations) ==
  LET pool_df == [k \in DOMAIN facilities |-> PoolRecord(facilities[k])]
  IN [op |-> "merge_calendar", facilities |-> facilities,
      public_holidays |-> public_holidays, school_vacations |-> school_vacations,
      merged_df |-> merge_features(pool_df, <<>>, public_holidays, school_vacations)]

\* the holiday calendar: any of day 0 and day 3 a public holiday, no school
\* vacation or one from day 1 to day 2
InitFeatures ==
  /\ PipelineIdle
  /\ call \in {FeatureAudit(<<>>, h, v) : h \in SUBSET {0, 3}, v \in {<<>>, << <<1, 2>> >>}}

\* the raw file has one more observation and a merge run loads and
\* enriches it
EnrichObservation(day, is_weekend) ==
  /\ Len(call.facilities) < MaxFeatureRows
  /\ call' = FeatureAudit(Append(call.facilities, RawObservation(day, is_weekend)),
                          call.public_holidays, call.school_vacations)
  /\ UNCHANGED <<raw_files, dataset, facility_types, last, aliases>>

NextFeatures ==
  \E day \in 0..MaxDay, is_weekend \in {None, Some(TRUE), Some(FALSE)} :
    EnrichObservation(day, is_weekend)

SpecFeatures == InitFeatures /\ [][NextFeatures]_vars

\* C23: month, is_weekend, is_holiday and is_school_vacation of every row
\* of a merge run follow from the timestamp of the row and the holiday
\* calendar: is_weekend is 1 exactly on a Saturday or Sunday, whatever flag
\* the raw file carries.
C23_CalendarFromTimestamp ==
  call.op = "merge_calendar" =>
    \A k \in DOMAIN call.merged_df :
      LET row == call.merged_df[k]
          day == row.timestamp \div 1440
      IN /\ row.month = (IF day <= 1 THEN 1 ELSE 2)
         /\ row.is_weekend = (IF Weekday(day) \in {5, 6} THEN 1 ELSE 0)
         /\ row.is_holiday = (IF day \in call.public_holidays THEN 1 ELSE 0)
         /\ row.is_school_vacation =
              (IF \E j \in DOMAIN call.school_vacations :
                    call.school_vacations[j][1] <= day /\ day <= call.school_vacations[j][2]
               THEN 1 ELSE 0)

====
